---- MODULE Spec2Model ----
(***************************************************************************)
(* A model of foxESS.py: one run of main(), from argument parsing to the   *)
(* last printed line.  The two blocking HTTP calls are the points where    *)
(* the remote service acts, so each action is the code between two of      *)
(* them.                                                                   *)
(*                                                                         *)
(* Numbers.  A telemetry reading is an integer count of thousandths, so    *)
(* 20 is the reading 0.02 and 21 is 0.021.  A JSON value is a tagged       *)
(* record: Num(n), Str(s) or Null (Python None, also "key not found").     *)
(* A printed number is the sequence of its characters.                     *)
(***************************************************************************)
EXTENDS Integers, Sequences, FiniteSets, TLC

VARIABLES
    args,       \* argparse namespace: api_key, debug, test, all, decimals
    remaining,  \* the arguments argparse did not recognise, in order
    variables,  \* main's list of requested variable names
    pc,         \* position of main
    token,      \* FoxESSStatsAPI.token ("" models None)
    requests,   \* every HTTP request issued so far, in order
    resps,      \* every HTTP response received so far, in order
    inflight,   \* number of requests sent and not yet answered
    devices,    \* main's local `devices`
    device,     \* main's local `device`
    data,       \* main's local `data`
    mode,       \* which branch of the output if/elif/else was entered
    output      \* the lines printed to standard output, in order

vars == <<args, remaining, variables, pc, token, requests, resps, inflight,
          devices, device, data, mode, output>>

----------------------------------------------------------------------------
(* Bounds of the model *)

MaxArgs == 2       \* longest list of unrecognised arguments
MaxDevices == 2    \* longest device list the service returns
MaxPayloads == 2   \* longest real-data response list

----------------------------------------------------------------------------
(* JSON values *)

Num(n) == [t |-> "num", v |-> n]
Str(s) == [t |-> "str", v |-> s]
Null == [t |-> "null"]
IsNum(x) == x.t = "num"

\* The threshold 0.02 of the zero-floor rule, in thousandths.
ZeroFloor == 20

SolarNames == {"generationPower", "pvPower"}

\* str.lower() on the names that occur in the model.
Lower(s) ==
    CASE s = "generationPower" -> "generationpower"
      [] s = "pvPower" -> "pvpower"
      [] s = "gridConsumptionPower" -> "gridconsumptionpower"
      [] s = "feedinPower" -> "feedinpower"
      [] s = "loadsPower" -> "loadspower"
      [] s = "batChargePower" -> "batchargepower"
      [] s = "batDischargePower" -> "batdischargepower"
      [] s = "SoC" -> "soc"
      [] s = "SOC" -> "soc"
      [] s = "batTemperature" -> "battemperature"
      [] OTHER -> s

----------------------------------------------------------------------------
(* Number formatting: f"{value:.{d}f}".rstrip('0').rstrip('.') *)

Abs(n) == IF n < 0 THEN -n ELSE n

RECURSIVE Pow10(_)
Pow10(k) == IF k = 0 THEN 1 ELSE 10 * Pow10(k - 1)

DigitChar(k) ==
    CASE k = 0 -> "0" [] k = 1 -> "1" [] k = 2 -> "2" [] k = 3 -> "3"
      [] k = 4 -> "4" [] k = 5 -> "5" [] k = 6 -> "6" [] k = 7 -> "7"
      [] k = 8 -> "8" [] k = 9 -> "9"

\* Decimal digits of the natural number n, most significant first.
RECURSIVE Digits(_)
Digits(n) == IF n < 10 THEN <<DigitChar(n)>>
             ELSE Append(Digits(n \div 10), DigitChar(n % 10))

\* The k low digits of n, zero padded.
RECURSIVE PadDigits(_, _)
PadDigits(n, k) == IF k = 0 THEN <<>>
                   ELSE Append(PadDigits(n \div 10, k - 1), DigitChar(n % 10))

\* |v| thousandths scaled to 10^-d units, ties to even (the readings of the
\* model have no tie that a binary float would resolve otherwise).
RoundTo(v, d) ==
    IF d >= 3 THEN Abs(v) * Pow10(d - 3)
    ELSE LET q == Abs(v) * Pow10(d)
             n == q \div 1000
             r == q % 1000
         IN  IF r > 500 \/ (r = 500 /\ n % 2 = 1) THEN n + 1 ELSE n

\* f"{value:.{d}f}"
FixedPoint(v, d) ==
    LET n == RoundTo(v, d)
        sign == IF v < 0 THEN <<"-">> ELSE <<>>
        whole == Digits(n \div Pow10(d))
    IN  IF d = 0 THEN sign \o whole
        ELSE sign \o whole \o <<".">> \o PadDigits(n % Pow10(d), d)

\* str.rstrip(c)
RECURSIVE RStrip(_, _)
RStrip(s, c) == IF s # <<>> /\ s[Len(s)] = c
                THEN RStrip(SubSeq(s, 1, Len(s) - 1), c)
                ELSE s

TrimNumber(v, d) == RStrip(RStrip(FixedPoint(v, d), "0"), ".")

format_power_value(v, d) == Append(TrimNumber(v, d), " kW")

----------------------------------------------------------------------------
(* Domain models and query helpers *)

\* The unit string U+00B0 'C' (degree sign, capital C).
DegreeC == "<deg>C"

\* OpenQueryData(data): one data point of a real-data payload.
OpenQueryData(p) == [variable |-> p.variable, value |-> p.value, unit |-> p.unit]

\* Device(data): one record of the device-list payload.
Device(rec) == [device_sn |-> rec.deviceSN, station_name |-> rec.stationName,
                has_battery |-> rec.hasBattery]

\* Index of the first item of data_list whose variable matches key without
\* regard to case; 0 when there is none.
RECURSIVE FirstMatchFrom(_, _, _)
FirstMatchFrom(data_list, key, i) ==
    IF i > Len(data_list) THEN 0
    ELSE IF Lower(data_list[i].variable) = Lower(key) THEN i
    ELSE FirstMatchFrom(data_list, key, i + 1)

\* Faulty variant: the lookup compares the names as they are.
get_data_value_exact(data_list, key) ==
    LET hits == {i \in DOMAIN data_list : data_list[i].variable = key}
    IN  IF hits = {} THEN Null
        ELSE data_list[CHOOSE i \in hits : \A j \in hits : i <= j].value

get_data_value(data_list, key) ==
    LET i == FirstMatchFrom(data_list, key, 1)
    IN  IF i = 0 THEN Null ELSE data_list[i].value

get_data_unit(data_list, key) ==
    LET i == FirstMatchFrom(data_list, key, 1)
    IN  IF i = 0 THEN ""
        ELSE IF data_list[i].unit = DegreeC THEN "C" ELSE data_list[i].unit

----------------------------------------------------------------------------
(* Output lines *)

Dbg(text) == [kind |-> "debug", text |-> text]
DbgIf(debug, texts) == IF debug THEN [i \in 1..Len(texts) |-> Dbg(texts[i])] ELSE <<>>
ErrorLine(msg) == [kind |-> "error", msg |-> msg]

\* A rendering step yields the lines it printed and the exception it raised
\* ("" when it returned normally).
Printed(lines, exc) == [lines |-> lines, exc |-> exc]

----------------------------------------------------------------------------
(* The three output modes of main *)

\* `x or 0` on a value returned by get_data_value (strings of the model are
\* never empty).
OrZero(x) == IF x.t = "null" \/ (x.t = "num" /\ x.v = 0) THEN Num(0) ELSE x

\* Faulty variant: a flow of exactly 0 counts as import.
grid_label_zero_import(grid_flow) == IF grid_flow >= 0 THEN "import" ELSE "export"

\* Lines 313 and 316: the direction shown for a flow.
grid_label(grid_flow) == IF grid_flow > 0 THEN "import" ELSE "export"
battery_label(battery_flow) == IF battery_flow > 0 THEN "charging" ELSE "discharging"

\* Lines 280-318: the default summary.
summary(data_list, dev, a) ==
    LET solar0 == OrZero(get_data_value(data_list, "generationPower"))
        pv0 == OrZero(get_data_value(data_list, "pvPower"))
        grid_consumption == OrZero(get_data_value(data_list, "gridConsumptionPower"))
        feed_in == OrZero(get_data_value(data_list, "feedinPower"))
        home == OrZero(get_data_value(data_list, "loadsPower"))
        battery_charge == OrZero(get_data_value(data_list, "batChargePower"))
        battery_discharge == OrZero(get_data_value(data_list, "batDischargePower"))
        battery_soc == OrZero(get_data_value(data_list, "SoC"))
        d == a.decimals
    IN  IF ~(IsNum(grid_consumption) /\ IsNum(feed_in) /\ IsNum(battery_charge)
             /\ IsNum(battery_discharge) /\ IsNum(solar0) /\ IsNum(pv0))
        THEN \* `-` or `<=` on a string, before anything is printed
             Printed(<<>>, "TypeError")
        ELSE
        LET grid_flow == grid_consumption.v - feed_in.v
            battery_flow == battery_charge.v - battery_discharge.v
            solar == IF solar0.v <= ZeroFloor THEN 0 ELSE solar0.v
            pv_power == IF pv0.v <= ZeroFloor THEN 0 ELSE pv0.v
            dbg == DbgIf(a.debug, <<"Raw values:", "Solar", "PVPower", "GridConsumption",
                                    "FeedIn", "Home", "BatteryCharge", "BatteryDischarge">>)
            head == dbg \o
                    << [kind |-> "device", name |-> dev.station_name],
                       [kind |-> "power", name |-> "generationPower",
                        text |-> format_power_value(solar, d)],
                       [kind |-> "power", name |-> "pvPower",
                        text |-> format_power_value(pv_power, d)] >>
            flows == << [kind |-> "power", name |-> "loadsPower",
                         text |-> format_power_value(home.v, d)],
                        [kind |-> "grid", text |-> format_power_value(Abs(grid_flow), d),
                         dir |-> grid_label(grid_flow)] >>
            battery == [kind |-> "battery",
                        text |-> format_power_value(Abs(battery_flow), d),
                        dir |-> battery_label(battery_flow)]
        IN  IF ~IsNum(home) THEN Printed(head, "ValueError")
            ELSE IF ~dev.has_battery THEN Printed(head \o flows, "")
            ELSE IF ~IsNum(battery_soc)
                 THEN Printed(head \o flows \o <<battery>>, "ValueError")
            ELSE Printed(head \o flows \o
                         << battery,
                            [kind |-> "soc",
                             text |-> Append(TrimNumber(battery_soc.v, d), "%")] >>, "")

\* Lines 207-215: one line of dump_all_variables.
DumpLine(item, d) ==
    LET adjusted_value == IF item.variable \in SolarNames /\ item.value.v <= ZeroFloor
                          THEN 0 ELSE item.value.v
        value_str == IF IsNum(item.value) THEN TrimNumber(adjusted_value, d)
                     ELSE IF item.value.t = "str" THEN <<item.value.v>>
                     ELSE <<"unknown">>
    IN  [kind |-> "all", name |-> item.variable, text |-> value_str, unit |-> item.unit]

dump_all_variables(data_list, d) ==
    Printed(<<[kind |-> "header", text |-> "Available variables:"]>> \o
            [i \in 1..Len(data_list) |-> DumpLine(data_list[i], d)], "")

\* Lines 326-334: the line printed for one requested variable.
VariableLine(data_list, variable, d) ==
    LET value == get_data_value(data_list, variable)
        adjusted_value == IF variable \in SolarNames /\ value.v <= ZeroFloor
                          THEN 0 ELSE value.v
    IN  IF IsNum(value)
        THEN [kind |-> "var", name |-> variable, text |-> TrimNumber(adjusted_value, d),
              unit |-> get_data_unit(data_list, variable)]
        ELSE [kind |-> "notavailable", name |-> variable]

show_variables(data_list, names, d) ==
    Printed([i \in 1..Len(names) |-> VariableLine(data_list, names[i], d)], "")

\* Faulty variant: the variable flags are tested before --all.
select_mode_flags_first(names, a) ==
    IF names # <<>> THEN "explicit"
    ELSE IF a.all THEN "all"
    ELSE "summary"

\* Lines 278, 320, 323: the branch of the output if/elif/else.
select_mode(names, a) ==
    IF names = <<>> /\ ~a.all THEN "summary"
    ELSE IF a.all THEN "all"
    ELSE "explicit"

\* Lines 278-334.
render(m, data_list, dev, names, a) ==
    CASE m = "summary" -> summary(data_list, dev, a)
      [] m = "all" -> dump_all_variables(data_list, a.decimals)
      [] m = "explicit" -> show_variables(data_list, names, a.decimals)

----------------------------------------------------------------------------
(* The API client *)

ListPath == "/op/v0/device/list"
RealPath == "/op/v0/device/real/query"

\* Line 153: the variables a real-data query asks for.
RealVariables ==
    << "generationPower", "feedinPower", "gridConsumptionPower", "loadsPower",
       "batChargePower", "batDischargePower", "SoC", "batTemperature",
       "ambientTemperation", "invTemperation", "meterPower2", "pvPower" >>

\* HTTP responses.  A 2xx response carries the JSON envelope: `errno` (absent
\* when hasErrno is false) and `result`, which is absent, null or a payload.
HttpError(code) == [kind |-> "http", code |-> code, body |-> "Unauthorized"]
UrlError(reason) == [kind |-> "url", reason |-> reason]
Envelope(hasErrno, errno, result) ==
    [kind |-> "ok", hasErrno |-> hasErrno, errno |-> errno, result |-> result]
Absent == [t |-> "absent"]
Payload(v) == [t |-> "val", v |-> v]

\* What a call returns: a value, or the message of the exception it raised.
Returned(v) == [ok |-> TRUE, value |-> v]
Raised(msg) == [ok |-> FALSE, msg |-> msg]

\* Lines 95-113 of _fetch: the outcome of a request, given its response.
_fetch(r) ==
    CASE r.kind = "http" -> Raised([type |-> "HTTP", code |-> r.code, text |-> r.body])
      [] r.kind = "url" -> Raised([type |-> "URL Error", reason |-> r.reason])
      [] r.kind = "ok" ->
            IF (IF r.hasErrno THEN r.errno ELSE 0) > 0
            THEN Raised([type |-> "Server error", code |-> r.errno])
            ELSE IF r.result.t = "absent" THEN Returned([t |-> "dict"])
            ELSE Returned(r.result)

\* Lines 58-93: the request _fetch sends, and what it prints while doing so.
Request(path, tok, body) == [path |-> path, token |-> tok, body |-> body]
SendDebug(debug) == DbgIf(debug, <<"Setting up headers", "Timestamp", "Signature", "Fetching">>)
\* Lines 97-98 and 109-110: what _fetch prints on receiving the response.
RecvDebug(debug, r) ==
    CASE r.kind = "ok" -> DbgIf(debug, <<"Status code">>)
      [] r.kind = "http" -> DbgIf(debug, <<"Error response">>)
      [] OTHER -> <<>>

\* Line 149: the devices of a device-list result.
DevicesOf(result) ==
    CASE result.t = "null" -> Raised([type |-> "AttributeError"])
      [] result.t = "dict" -> Returned(<<>>)
      [] result.t = "val" ->
            Returned([i \in 1..Len(result.v) |-> Device(result.v[i])])

\* Faulty variant: the first payload is taken whatever its serial.
FindAnyDevice(result, device_sn, i) == IF result = <<>> THEN 0 ELSE 1

\* Lines 168-172: index of the first payload of the response whose serial is
\* device_sn; 0 when there is none.
RECURSIVE FindDevice(_, _, _)
FindDevice(result, device_sn, i) ==
    IF i > Len(result) THEN 0
    ELSE IF result[i].deviceSN = device_sn THEN i
    ELSE FindDevice(result, device_sn, i + 1)

\* Lines 167-172 of fetch_real_data, given the result of the request.
DataOf(result, device_sn) ==
    CASE result.t = "null" -> Raised([type |-> "TypeError"])
      [] result.t = "dict" -> Raised([type |-> "No data found for device"])
      [] result.t = "val" ->
            LET i == FindDevice(result.v, device_sn, 1)
            IN  IF i = 0 THEN Raised([type |-> "No data found for device"])
                ELSE Returned([k \in 1..Len(result.v[i].datas) |->
                                  OpenQueryData(result.v[i].datas[k])])

\* Lines 237-239: the variable flags among the unrecognised arguments.  An
\* argument is its number of leading dashes (at most two count) and the rest.
Arg(dashes, body) == [dashes |-> dashes, body |-> body]
extract_variables(rest) ==
    LET flags == SelectSeq(rest, LAMBDA arg : arg.dashes = 2 /\ arg.body # "")
    IN  [i \in 1..Len(flags) |-> flags[i].body]

----------------------------------------------------------------------------
(* main *)

NoDevice == [device_sn |-> "", station_name |-> "", has_battery |-> FALSE]

\* Faulty variant: only an HTTP error counts as a failed test.
test_authentication_http_only(r) == r.kind # "http"

\* Lines 128-137: test_authentication's verdict, given the response.
test_authentication(r) == _fetch(r).ok

\* Faulty variant: the last device of the list is queried.
last_device(devs) == devs[Len(devs)]

\* Line 271: the device main queries.
first_device(devs) == devs[1]

\* Faulty variant: an empty device list is reported as an error.
no_devices_error ==
    <<[kind |-> "error", msg |-> [type |-> "No devices found for this account"]]>>

\* Line 268: what main prints when the account has no device.
no_devices_report == <<[kind |-> "nodevices", text |-> "No devices found for this account"]>>

\* Faulty variant: the handler also prints the usage text, as the missing-key
\* branch does.
AbortWithHelp(msg) == <<[kind |-> "error", msg |-> msg], [kind |-> "help"]>>

\* The first line of main's `except Exception` handler (line 337).
Abort(msg) == <<ErrorLine(msg)>>

Init(ArgSet, RestSet) ==
    /\ args \in ArgSet
    /\ remaining \in RestSet
    /\ variables = <<>>
    /\ pc = "parse"
    /\ token = ""
    /\ requests = <<>>
    /\ resps = <<>>
    /\ inflight = 0
    /\ devices = <<>>
    /\ device = NoDevice
    /\ data = <<>>
    /\ mode = "none"
    /\ output = <<>>

\* Lines 233-247: parse the arguments, collect the variable flags, insist
\* on an API key, create the client.
ParseArgs ==
    /\ pc = "parse"
    /\ variables' = extract_variables(remaining)
    /\ IF args.api_key = ""
       THEN /\ output' = output \o <<ErrorLine([type |-> "No API key provided"]),
                                     [kind |-> "help"]>>
            /\ pc' = "done"
       ELSE /\ output' = output
            /\ pc' = "run"
    /\ UNCHANGED <<args, remaining, token, requests, resps, inflight, devices,
                   device, data, mode>>

\* Lines 251-252 and 121-132: --test; authenticate and send the device-list
\* request of test_authentication.
StartTest ==
    /\ pc = "run"
    /\ args.test
    /\ token' = args.api_key
    /\ requests' = Append(requests,
                          Request(ListPath, token', [currentPage |-> 1, pageSize |-> 10]))
    /\ inflight' = inflight + 1
    /\ output' = output
                 \o DbgIf(args.debug, <<"Testing authentication", "Setting API key as token">>)
                 \o SendDebug(args.debug)
    /\ pc' = "test_wait"
    /\ UNCHANGED <<args, remaining, variables, resps, devices, device, data, mode>>

\* Lines 133-137 and 252-256: the response arrives; print the verdict and
\* return.
TestReturn(r) ==
    /\ pc = "test_wait"
    /\ resps' = Append(resps, r)
    /\ inflight' = inflight - 1
    /\ LET valid == test_authentication(r)
       IN  output' = output
                     \o RecvDebug(args.debug, r)
                     \o (IF valid THEN <<>>
                         ELSE DbgIf(args.debug, <<"Authentication test failed">>))
                     \o <<[kind |-> "verdict",
                           text |-> IF valid THEN "API Key is valid"
                                    ELSE "API Key is invalid or there was a connection problem"]>>
    /\ pc' = "done"
    /\ UNCHANGED <<args, remaining, variables, token, requests, devices, device,
                   data, mode>>

\* Lines 259-264 and 139-147: authenticate and send the device-list request.
StartList ==
    /\ pc = "run"
    /\ ~args.test
    /\ token' = args.api_key
    /\ requests' = Append(requests,
                          Request(ListPath, token', [currentPage |-> 1, pageSize |-> 10]))
    /\ inflight' = inflight + 1
    /\ output' = output
                 \o DbgIf(args.debug, <<"Setting API key as token", "Getting device list",
                                        "Fetching device list">>)
                 \o SendDebug(args.debug)
    /\ pc' = "list_wait"
    /\ UNCHANGED <<args, remaining, variables, resps, devices, device, data, mode>>

\* Lines 149 and 264-276, 159-165: the device-list response arrives; stop on
\* an error or an empty list, else pick the device and send the real-data
\* query.
ListReturn(r) ==
    /\ pc = "list_wait"
    /\ resps' = Append(resps, r)
    /\ LET res == _fetch(r)
           devs == DevicesOf(res.value)
           recv == output \o RecvDebug(args.debug, r)
       IN  IF ~res.ok \/ ~devs.ok
           THEN /\ output' = recv \o Abort(IF ~res.ok THEN res.msg ELSE devs.msg)
                /\ inflight' = inflight - 1
                /\ pc' = "done"
                /\ UNCHANGED <<devices, device, requests>>
           ELSE IF devs.value = <<>>
           THEN /\ devices' = devs.value
                /\ output' = recv \o no_devices_report
                /\ inflight' = inflight - 1
                /\ pc' = "done"
                /\ UNCHANGED <<device, requests>>
           ELSE /\ devices' = devs.value
                /\ device' = first_device(devs.value)
                /\ requests' = Append(requests,
                                      Request(RealPath, token,
                                              [deviceSN |-> device'.device_sn,
                                               variables |-> RealVariables]))
                /\ inflight' = (inflight - 1) + 1
                /\ output' = recv
                             \o DbgIf(args.debug, <<"Found device", "Fetching real-time data">>)
                             \o SendDebug(args.debug)
                /\ pc' = "real_wait"
    /\ UNCHANGED <<args, remaining, variables, token, data, mode>>

\* Lines 167-172 and 276-340: the real-data response arrives; find the
\* device's data and print it in the selected mode.
RealReturn(r) ==
    /\ pc = "real_wait"
    /\ resps' = Append(resps, r)
    /\ inflight' = inflight - 1
    /\ LET res == _fetch(r)
           found == DataOf(res.value, device.device_sn)
           recv == output \o RecvDebug(args.debug, r)
       IN  IF ~res.ok \/ ~found.ok
           THEN /\ output' = recv \o Abort(IF ~res.ok THEN res.msg ELSE found.msg)
                /\ UNCHANGED <<data, mode>>
           ELSE /\ data' = found.value
                /\ mode' = select_mode(variables, args)
                /\ LET p == render(mode', data', device, variables, args)
                   IN  output' = recv \o p.lines
                                 \o (IF p.exc = "" THEN <<>> ELSE Abort([type |-> p.exc]))
    /\ pc' = "done"
    /\ UNCHANGED <<args, remaining, variables, token, requests, devices, device>>

----------------------------------------------------------------------------
(* Inputs *)

SeqUpTo(S, n) == UNION {[1..k -> S] : k \in 0..n}

Point(variable, value, unit) == [variable |-> variable, value |-> value, unit |-> unit]

\* The data points of a payload: those of `points` that have a value.
Present(points) == SelectSeq(points, LAMBDA p : p.value.t # "absent")

Namespace(key, debug, test, all, decimals) ==
    [api_key |-> key, debug |-> debug, test |-> test, all |-> all, decimals |-> decimals]

DeviceRec(sn, name, battery) == [deviceSN |-> sn, stationName |-> name, hasBattery |-> battery]
RealPayload(sn, datas) == [deviceSN |-> sn, datas |-> datas]

\* Responses that carry no usable payload: transport failures, and envelopes
\* with and without an error code around `sample`.
Failures(sample) ==
    { HttpError(401), UrlError("timed out"),
      Envelope(TRUE, 0, Absent), Envelope(TRUE, 0, Null),
      Envelope(FALSE, 0, Payload(sample)),
      Envelope(TRUE, 1, Null), Envelope(TRUE, 1, Payload(sample)),
      Envelope(TRUE, -1, Null), Envelope(TRUE, -1, Payload(sample)) }

Successes(payloads) == { Envelope(TRUE, 0, Payload(v)) : v \in payloads }

(* Inputs of the whole run *)

MainArgs == { Namespace(k, dbg, tst, al, 2) :
                k \in {"", "KEY"}, dbg \in BOOLEAN, tst \in BOOLEAN, al \in BOOLEAN }
MainRest == SeqUpTo({Arg(2, "soc"), Arg(2, "batTemperature"), Arg(2, ""), Arg(0, "extra")},
                    MaxArgs)

Home == DeviceRec("SN1", "Home", TRUE)
Barn == DeviceRec("SN2", "Barn", FALSE)

SampleA == << Point("generationPower", Num(10), "kW"), Point("loadsPower", Num(500000), "kW"),
              Point("gridConsumptionPower", Num(600000), "kW"),
              Point("feedinPower", Num(0), "kW") >>
SampleB == << Point("SoC", Num(85500), "%"), Point("pvPower", Num(21), "kW"),
              Point("batTemperature", Num(25000), DegreeC) >>

ListResponses ==
    Failures(<<Home, Barn>>) \cup Successes(SeqUpTo({Home, Barn}, MaxDevices))
RealResponses ==
    Failures(<<RealPayload("SN1", SampleA)>>)
    \cup Successes(SeqUpTo({ RealPayload("SN1", SampleA), RealPayload("SN1", SampleB),
                              RealPayload("SN2", SampleB) }, MaxPayloads))

MainInit == Init(MainArgs, MainRest)
TestResponse == \E r \in ListResponses : TestReturn(r)
ListResponse == \E r \in ListResponses : ListReturn(r)
RealResponse == \E r \in RealResponses : RealReturn(r)

Next == ParseArgs \/ StartTest \/ TestResponse \/ StartList \/ ListResponse \/ RealResponse

Spec == MainInit /\ [][Next]_vars

(* Inputs of the rendering runs: one device, one matching payload, and a
   wide choice of telemetry, flags and decimal places *)

RenderArgs == { Namespace("KEY", FALSE, FALSE, al, d) : al \in BOOLEAN, d \in {0, 2} }
RenderRest == SeqUpTo({Arg(2, "generationPower"), Arg(2, "generationpower"),
                       Arg(2, "soc"), Arg(2, "batChargePower")}, MaxArgs)

FlowValues == {Absent, Num(30000), Num(100000)}
GridDatas ==
    { Present(<< Point("gridConsumptionPower", gc, "kW"), Point("feedinPower", fi, "kW"),
                 Point("batChargePower", bc, "kW"), Point("batDischargePower", bd, "kW") >>) :
        gc \in FlowValues, fi \in FlowValues, bc \in FlowValues, bd \in FlowValues }
SolarDatas ==
    { Present(<< Point("generationPower", g, "kW"), Point("pvPower", pv, "kW"),
                 Point("SoC", soc, "%"), Point("loadsPower", ld, "kW") >>) :
        g \in {Absent, Num(20), Num(21), Str("N/A")},
        pv \in {Absent, Num(10), Num(21)},
        soc \in {Absent, Num(85500), Str("N/A"), Null},
        ld \in {Absent, Num(500000), Str("N/A")} }
OddDatas ==
    { << Point("generationPower", Num(21), "kW"), Point("generationPower", Num(10), "kW") >>,
      << Point("SOC", Num(50000), "%"), Point("SoC", Str("N/A"), "%") >>,
      << Point("batChargePower", Num(-1), "kW"), Point("batTemperature", Num(25000), DegreeC) >> }
RenderDatas == GridDatas \cup SolarDatas \cup OddDatas

RenderListResponses == Successes({ <<DeviceRec("SN1", "Home", b)>> : b \in BOOLEAN })
RenderRealResponses == Successes({ <<RealPayload("SN1", ds)>> : ds \in RenderDatas })

RenderInit == Init(RenderArgs, RenderRest)
RenderListResponse == \E r \in RenderListResponses : ListReturn(r)
RenderRealResponse == \E r \in RenderRealResponses : RealReturn(r)

RenderNext == ParseArgs \/ StartList \/ RenderListResponse \/ RenderRealResponse

SpecRender == RenderInit /\ [][RenderNext]_vars

TypeOK ==
    /\ pc \in {"parse", "run", "test_wait", "list_wait", "real_wait", "done"}
    /\ mode \in {"none", "summary", "all", "explicit"}
    /\ inflight \in 0..1

----------------------------------------------------------------------------
(* Vocabulary of the properties *)

\* The program's result lines: what it printed, debug lines left out.
Results == SelectSeq(output, LAMBDA l : l.kind # "debug")
Kinds == {output[i].kind : i \in DOMAIN output}

KeyGiven == args.api_key # ""
Finished == pc = "done"

\* At least one --<variableName> flag was supplied.
FlagSupplied == \E i \in DOMAIN remaining : remaining[i].dashes = 2 /\ remaining[i].body # ""

\* The kinds of line each output mode prints.
ModeKinds(m) ==
    CASE m = "summary" -> {"device", "power", "grid", "battery", "soc"}
      [] m = "all" -> {"header", "all"}
      [] m = "explicit" -> {"var", "notavailable"}
      [] m = "none" -> {}
AllModeKinds == ModeKinds("summary") \cup ModeKinds("all") \cup ModeKinds("explicit")

Paths == [i \in DOMAIN requests |-> requests[i].path]

ValidLine == [kind |-> "verdict", text |-> "API Key is valid"]
InvalidLine == [kind |-> "verdict",
                text |-> "API Key is invalid or there was a connection problem"]

----------------------------------------------------------------------------
(* C1 *)

\* One mode is entered exactly when the data was fetched, and every result
\* line printed belongs to it.
OneModeRendered ==
    /\ mode = "none" => Kinds \cap AllModeKinds = {}
    /\ mode # "none" => /\ Finished /\ Len(resps) = 2
                        /\ Kinds \cap AllModeKinds \subseteq ModeKinds(mode)

\* C1 as stated: precedence variable flags > --all > default summary; a
\* variable flag selects the explicit-variable mode even when --all is given.
C1_FlagsBeforeAll ==
    /\ OneModeRendered
    /\ mode # "none" =>
          mode = IF FlagSupplied THEN "explicit"
                 ELSE IF args.all THEN "all" ELSE "summary"

\* C1 amended: precedence --all > variable flags > default summary; --all
\* selects the show-all mode even when variable flags are given, and the
\* explicit-variable mode is used only for variable flags without --all.
C1_AllBeforeFlags ==
    /\ OneModeRendered
    /\ mode # "none" =>
          mode = IF args.all THEN "all"
                 ELSE IF FlagSupplied THEN "explicit" ELSE "summary"

\* A run given both --all and a variable flag that printed all variables.
C1_Witness ==
    /\ Finished /\ args.all /\ FlagSupplied
    /\ mode = "all"
    /\ "header" \in Kinds /\ "notavailable" \notin Kinds /\ "var" \notin Kinds

----------------------------------------------------------------------------
(* C2 *)

\* C2: a --test run authenticates, sends one device-list request and no
\* real-data query, and ends by printing one verdict line and nothing else:
\* "valid" exactly when the request raised no error, "invalid" for an HTTP
\* error, a transport failure and a server error alike.
C2_TestRun ==
    (args.test /\ KeyGiven) =>
        /\ Len(requests) <= 1
        /\ \A i \in DOMAIN requests :
              requests[i].path = ListPath /\ requests[i].token = args.api_key
        /\ requests # <<>> => token = args.api_key
        /\ ~Finished => Results = <<>> /\ resps = <<>>
        /\ Finished =>
              /\ Len(requests) = 1 /\ Len(resps) = 1 /\ inflight = 0
              /\ Results = <<IF _fetch(resps[1]).ok THEN ValidLine ELSE InvalidLine>>
              /\ resps[1].kind \in {"http", "url"} => Results = <<InvalidLine>>
              /\ (~_fetch(resps[1]).ok /\ _fetch(resps[1]).msg.type = "Server error")
                    => Results = <<InvalidLine>>
              /\ mode = "none" /\ devices = <<>> /\ data = <<>>

\* A --test run in debug mode whose request got HTTP 401.
C2_Witness ==
    /\ args.test /\ args.debug /\ Finished
    /\ resps = <<HttpError(401)>>
    /\ Results = <<InvalidLine>>

----------------------------------------------------------------------------
(* C3 *)

\* C3: without --test, requests are sequential and carry the token; there is
\* at most one device-list request and at most one real-data query, and the
\* query is sent only after the device-list request returned a non-empty
\* list without error, for the serial of the first device of that list.
C3_Sequential ==
    (~args.test /\ KeyGiven) =>
        /\ inflight \in {0, 1}
        /\ inflight = Len(requests) - Len(resps)
        /\ \A i \in DOMAIN requests : requests[i].token = args.api_key
        /\ Paths \in {<<>>, <<ListPath>>, <<ListPath, RealPath>>}
        /\ Len(requests) = 2 =>
              /\ resps # <<>>
              /\ resps[1].kind = "ok" /\ _fetch(resps[1]).ok
              /\ resps[1].result.t = "val" /\ resps[1].result.v # <<>>
              /\ requests[2].body.deviceSN = resps[1].result.v[1].deviceSN

\* A finished run whose device list held two devices with different serials.
C3_Witness ==
    /\ ~args.test /\ Finished
    /\ Len(requests) = 2 /\ Len(resps) = 2
    /\ Len(resps[1].result.v) = 2
    /\ resps[1].result.v[1].deviceSN # resps[1].result.v[2].deviceSN

----------------------------------------------------------------------------
(* C4 *)

\* The device-list request returned without error and held no device.
EmptyDeviceList ==
    /\ resps # <<>>
    /\ resps[1].kind = "ok"
    /\ _fetch(resps[1]).ok
    /\ \/ resps[1].result.t = "absent"
       \/ resps[1].result.t = "val" /\ resps[1].result.v = <<>>

\* C4: when the device list comes back empty, the run ends having printed
\* "No devices found for this account" as its only result line and having
\* sent no real-data query.
C4_NoDevices ==
    (~args.test /\ KeyGiven /\ EmptyDeviceList) =>
        /\ Finished
        /\ Results = <<[kind |-> "nodevices", text |-> "No devices found for this account"]>>
        /\ Paths = <<ListPath>>
        /\ inflight = 0
        /\ mode = "none"

\* A debug run whose device list was the empty list.
C4_Witness ==
    /\ ~args.test /\ args.debug /\ Finished
    /\ resps = <<Envelope(TRUE, 0, Payload(<<>>))>>
    /\ Len(Results) = 1 /\ Len(output) > 1

----------------------------------------------------------------------------
(* C5 *)

\* The error a failed device-list fetch raised; the error a failed real-data
\* fetch raised.
ListFailure ==
    LET res == _fetch(resps[1])
    IN  IF ~res.ok THEN res ELSE DevicesOf(res.value)
RealFailure ==
    LET res == _fetch(resps[2])
    IN  IF ~res.ok THEN res ELSE DataOf(res.value, requests[2].body.deviceSN)

\* C5: without --test, a failed device-list request or real-data query ends
\* the run: nothing is sent after it, no request is sent twice, and the only
\* result line is "Error: <message>" with the message of the error raised.
C5_FailureAborts ==
    (~args.test /\ KeyGiven) =>
        /\ (Len(resps) >= 1 /\ ~ListFailure.ok) =>
              /\ Finished
              /\ Paths = <<ListPath>> /\ Len(resps) = 1 /\ inflight = 0
              /\ Results = <<ErrorLine(ListFailure.msg)>>
        /\ (Len(resps) = 2 /\ ~RealFailure.ok) =>
              /\ Finished
              /\ Paths = <<ListPath, RealPath>> /\ inflight = 0
              /\ Results = <<ErrorLine(RealFailure.msg)>>

\* A run whose device list arrived and whose real-data query timed out.
C5_Witness ==
    /\ ~args.test /\ Finished
    /\ Len(resps) = 2 /\ resps[2] = UrlError("timed out")
    /\ Results = <<ErrorLine([type |-> "URL Error", reason |-> "timed out"])>>

----------------------------------------------------------------------------
(* C6 *)

\* C6: for a 2xx response with an integer error code, the request returns the
\* result payload exactly when the code is 0, and raises a server error that
\* carries the code for every other code, negative ones included.
C6_NonzeroErrnoRaises ==
    \A i \in DOMAIN resps :
        (resps[i].kind = "ok" /\ resps[i].hasErrno) =>
            /\ _fetch(resps[i]).ok <=> resps[i].errno = 0
            /\ resps[i].errno # 0 =>
                  _fetch(resps[i]).msg = [type |-> "Server error", code |-> resps[i].errno]

\* What the code does: the payload is returned for every code that is not
\* positive.
C6_PositiveErrnoRaises ==
    \A i \in DOMAIN resps :
        (resps[i].kind = "ok" /\ resps[i].hasErrno) =>
            /\ _fetch(resps[i]).ok <=> resps[i].errno <= 0
            /\ resps[i].errno > 0 =>
                  _fetch(resps[i]).msg = [type |-> "Server error", code |-> resps[i].errno]

----------------------------------------------------------------------------
(* C10 *)

\* The payloads of the real-data response, when the request returned a list.
RealList == resps[2].result.v
RealListReturned ==
    /\ Len(resps) = 2
    /\ resps[2].kind = "ok" /\ _fetch(resps[2]).ok
    /\ resps[2].result.t = "val"
Matching == {i \in DOMAIN RealList : RealList[i].deviceSN = requests[2].body.deviceSN}
FirstMatching == CHOOSE i \in Matching : \A j \in Matching : i <= j

\* C10: fetch_real_data returns the data points of the first payload whose
\* serial is the requested one, and raises "No data found for device" exactly
\* when no payload has that serial.
C10_MatchingSerial ==
    RealListReturned =>
        IF Matching = {}
        THEN /\ Results = <<ErrorLine([type |-> "No data found for device"])>>
             /\ data = <<>> /\ mode = "none"
        ELSE /\ ErrorLine([type |-> "No data found for device"]) \notin
                    {output[i] : i \in DOMAIN output}
             /\ mode # "none"
             /\ data = [k \in DOMAIN RealList[FirstMatching].datas |->
                           OpenQueryData(RealList[FirstMatching].datas[k])]

\* The response lists another device's payload first, then the requested
\* device's, with different data.
C10_Witness ==
    /\ RealListReturned /\ Finished
    /\ Len(RealList) = 2 /\ Matching = {2}
    /\ RealList[1].datas # RealList[2].datas
    /\ data = RealList[2].datas

\* The response is a list without the requested serial.
C10_WitnessNotFound ==
    /\ RealListReturned /\ Finished
    /\ RealList # <<>> /\ Matching = {}
    /\ Results = <<ErrorLine([type |-> "No data found for device"])>>

----------------------------------------------------------------------------
(* Vocabulary of the rendering properties *)

\* The positions of the data points whose name is `name` up to case, and the
\* first of them.
Named(name) == {k \in DOMAIN data : Lower(data[k].variable) = Lower(name)}
FirstNamed(name) == data[CHOOSE k \in Named(name) : \A j \in Named(name) : k <= j]
HasReading(name) == Named(name) # {} /\ FirstNamed(name).value.t = "num"
\* The reading of `name`, an absent or null one counting as 0.
Reading(name) == IF HasReading(name) THEN FirstNamed(name).value.v ELSE 0

\* The number displayed for the numeric data point p under the zero-floor
\* rule: 0 for a solar reading of 0.02 or less, the reading otherwise.
Floored(p) == IF p.variable \in SolarNames /\ p.value.v <= ZeroFloor THEN 0 ELSE p.value.v
Shown(v) == TrimNumber(v, args.decimals)

\* The variable flags, in the order given.
FlagNames ==
    LET flags == SelectSeq(remaining, LAMBDA a : a.dashes = 2 /\ a.body # "")
    IN  [i \in DOMAIN flags |-> flags[i].body]

Rendered(m) == Finished /\ mode = m /\ "error" \notin Kinds
LinesOf(kind) == SelectSeq(Results, LAMBDA l : l.kind = kind)

----------------------------------------------------------------------------
(* C7 *)

\* C7: in explicit-variable mode one line is printed per requested variable,
\* in the order of the flags: "name: value unit" when the first data point of
\* that name, case ignored, is numeric, "name: Not available" otherwise.
C7_OneLinePerVariable ==
    (Finished /\ mode = "explicit") =>
        /\ Len(Results) = Len(FlagNames)
        /\ \A i \in DOMAIN FlagNames :
              /\ Results[i].name = FlagNames[i]
              /\ IF HasReading(FlagNames[i])
                 THEN LET p == FirstNamed(FlagNames[i])
                      IN  /\ Results[i].kind = "var"
                          /\ Results[i].text \in {Shown(p.value.v), Shown(Floored(p))}
                          /\ Results[i].unit = p.unit
                 ELSE Results[i].kind = "notavailable"

\* --soc --batChargePower against a response with SoC 85.5 and no
\* batChargePower.
C7_Witness ==
    /\ Finished /\ mode = "explicit" /\ args.decimals = 2
    /\ FlagNames = <<"soc", "batChargePower">>
    /\ Named("batChargePower") = {}
    /\ Results = << [kind |-> "var", name |-> "soc", text |-> <<"8", "5", ".", "5">>,
                     unit |-> "%"],
                    [kind |-> "notavailable", name |-> "batChargePower"] >>

----------------------------------------------------------------------------
(* C8 *)

\* The zero-floor rule in the default summary: the two solar lines.
FloorInSummary ==
    Rendered("summary") =>
        \A n \in SolarNames :
            \E i \in DOMAIN Results :
                /\ Results[i].kind = "power" /\ Results[i].name = n
                /\ (HasReading(n) /\ FirstNamed(n).variable = n) =>
                      Results[i].text = Append(Shown(Floored(FirstNamed(n))), " kW")

\* The zero-floor rule under --all: the line of every numeric data point.
FloorInAll ==
    Rendered("all") =>
        /\ Len(Results) = Len(data) + 1
        /\ \A k \in DOMAIN data :
              data[k].value.t = "num" => Results[k + 1].text = Shown(Floored(data[k]))

\* The zero-floor rule for variable flags: the line of every flag that
\* selects a numeric data point.
FloorInExplicit ==
    Rendered("explicit") =>
        \A i \in DOMAIN Results :
            Results[i].kind = "var" =>
                Results[i].text = Shown(Floored(FirstNamed(Results[i].name)))

\* C8: in all three modes a displayed generationPower or pvPower reading of
\* 0.02 or less is shown as 0, a larger one as it is, and no other variable
\* is floored.
C8_ZeroFloorInEveryMode == FloorInSummary /\ FloorInAll /\ FloorInExplicit

----------------------------------------------------------------------------
(* C9 *)

HasBatteryFlag == resps[1].result.v[1].hasBattery

====
